---- MODULE Spec2Model ----
(***************************************************************************)
(* Db2 dialect of sequelize: the connection manager                       *)
(* (lib/dialects/db2/connection-manager.js) and the query executor        *)
(* (lib/dialects/db2/query.js, src/unnamed/part_002).                     *)
(*                                                                         *)
(* The column types of the dialect (src/unnamed/part_000 and               *)
(* lib/dialects/db2/data-types.js, two versions of the same module).      *)
(*                                                                         *)
(* These state machines share this module:                                 *)
(*   TypeSpec  toSql / _stringify / _sanitize of one type descriptor       *)
(*   ParseSpec the parse loop of the execute callback as a pure function   *)
(*   BindSpec  formatBindParameters and the params array of _run           *)
(*   FESpec    Query.formatError as a pure function of the native error    *)
(*   ConnSpec  ConnectionManager.connect / disconnect / validate           *)
(*   Spec      Query.run / Query._run against one connection lock          *)
(*   SessionSpec  the runs of Spec together with disconnect on their lock   *)
(* JavaScript objects are functions from property names to values, so     *)
(* that "the property is absent" (undefined) is `p \notin DOMAIN o`.       *)
(* Optional values (a regex group, a lookup) are sequences of length <= 1. *)
(* Strings that the code searches are sequences of tokens; a search is a   *)
(* scan of the sequence.                                                   *)
(***************************************************************************)
EXTENDS Integers, Sequences, FiniteSets, TLC

\* ------------------------------------------------------------------ bounds
\* Longest native error message (in tokens) handed to formatError in FESpec.
MaxMsgLen == 2
\* Longest native error message (in tokens) the driver delivers in Spec/ConnSpec.
DriverMsgLen == 1
\* Number of ConnectionManager.connect calls.
MaxConnects == 2
\* Number of native close calls issued on one handle.
MaxCloses == 2
\* Number of Query.run calls on the lock.
MaxRuns == 2
\* Largest row count a result object delivers.
MaxRows == 1
\* Number of toSql calls on one descriptor.
MaxToSql == 2
\* Largest precision given to DATE(n).
MaxPrecision == 7
\* Longest SQL text (in tokens) handed to formatBindParameters.
MaxSqlLen == 3

VARIABLES
  feErr,    \* FESpec: the native error handed to formatError
  feModel,  \* FESpec: this.model of the Query
  feOut,    \* FESpec: what formatError did
  connPool, \* ConnSpec: whether this.connPool is set on the manager
  conns,    \* ConnSpec: one record per connect call and the handle it opens
  handles,  \* ConnSpec: number of native handles created so far
  runs,     \* Spec: one record per Query.run call
  lockq,    \* Spec: the ResourceLock's chain of lock() requests, holder first
  txnOpen,  \* Spec: whether a transaction is open on the native connection
  desc,     \* TypeSpec: the column type descriptor, as it is now
  made,     \* TypeSpec: the descriptor as its constructor left it
  sqls,     \* TypeSpec: the outcomes of the toSql calls so far
  strs,     \* TypeSpec: the outcome of the last _stringify call
  san,      \* TypeSpec: the last BOOLEAN._sanitize call, argument and result
  parseIn,  \* ParseSpec: fetched rows, column metadata and the parser store
  parseOut, \* ParseSpec: the rows after the parse loop and the parser calls
  bindIn,   \* BindSpec: SQL text and bind values
  bindOut   \* BindSpec: the rewritten SQL and the params handed to execute

vars == <<feErr, feModel, feOut, connPool, conns, handles, runs, lockq,
          txnOpen, desc, made, sqls, strs, san, parseIn, parseOut, bindIn, bindOut>>
typeVars == <<desc, made, sqls, strs, san>>
parseVars == <<parseIn, parseOut>>
bindVars == <<bindIn, bindOut>>
pureVars == <<typeVars, parseVars, bindVars>>
feVars == <<feErr, feModel, feOut>>
connVars == <<connPool, conns, handles>>
runVars == <<runs, lockq, txnOpen>>

\* -------------------------------------------------------- JavaScript values
HasProp(o, p) == p \in DOMAIN o
SetProp(o, p, v) == [f \in DOMAIN o \cup {p} |-> IF f = p THEN v ELSE o[f]]
None == <<>>
Some(v) == <<v>>

RECURSIVE SeqsUpTo(_, _)
SeqsUpTo(S, n) ==
  IF n = 0 THEN {<<>>}
  ELSE LET shorter == SeqsUpTo(S, n - 1)
       IN  shorter \cup {Append(s, t) : s \in {q \in shorter : Len(q) = n - 1}, t \in S}

\* ------------------------------------------------------ native error text
Parent532 == "SQL0532N  A parent row cannot be deleted because the relationship \"FK\" restricts the deletion"
CouldNotDrop == "Could not drop constraint. See previous errors."
Tokens ==
  { "SQL0803N", Parent532, "SQL0532N", "SQL0530N", "SQL0531N", CouldNotDrop,
    "SQL0204N", "SQL0478N", "SQL0601N", "SQL0605W", "SQL30081N", "text" }

Messages(n) == SeqsUpTo(Tokens, n)

\* String.prototype.search(tok) != -1
Contains(msg, tok) == \E i \in 1..Len(msg) : msg[i] = tok

\* String.prototype.match(/tok/): null (here <<>>) or the array <<whole match>>
\* followed by the pattern's capture groups.
Match(msg, tok, groups) == IF Contains(msg, tok) THEN <<tok>> \o groups ELSE <<>>

\* match[i]: undefined when the pattern has fewer than i groups
Group(m, i) == IF i + 1 <= Len(m) THEN Some(m[i + 1]) ELSE None

\* err.message (undefined when absent)
MessageOf(err) == IF HasProp(err, "message") THEN Some(err.message) ELSE None
\* err.message && ...: an absent and an empty message are both falsy
TruthyMsg(opt) == opt # None /\ opt[1] # <<>>

\* SQL text of err.sql as far as formatError reads it
DropConstraintSql == <<"ALTER", "TABLE", "[t]", "DROP", "CONSTRAINT", "[c]">>
SqlTexts == {<<"SELECT", "1">>, DropConstraintSql}
\* err.sql.match(/(?:constraint|index) \[(.+?)\]/i) and /table \[(.+?)\]/i
SqlConstraint(sql) ==
  IF \E i \in 1..(Len(sql) - 1) : sql[i] = "CONSTRAINT" /\ sql[i + 1] = "[c]"
    THEN Some("c") ELSE None
SqlTable(sql) ==
  IF \E i \in 1..(Len(sql) - 1) : sql[i] = "TABLE" /\ sql[i + 1] = "[t]"
    THEN Some("t") ELSE None

\* Native error objects: message and sql each present or absent.
NativeErrors(n) ==
  { [p \in {} |-> <<>>] }
    \cup { [message |-> m] : m \in Messages(n) }
    \cup { [sql |-> s] : s \in SqlTexts }
    \cup { [message |-> m, sql |-> s] : m \in Messages(n), s \in SqlTexts }

\* this.model of a Query: absent, or a model with its uniqueKeys table
Models ==
  { [present |-> FALSE, uniqueKeys |-> {}],
    [present |-> TRUE, uniqueKeys |-> {}],
    [present |-> TRUE,
     uniqueKeys |-> {[name |-> "users_email", fields |-> <<"email">>, msg |-> None]}] }

\* this.model && this.model.uniqueKeys[key]; an undefined key reads the
\* property named "undefined"
UniqueKeyOf(model, key) ==
  LET name == IF key = None THEN "undefined" ELSE key[1]
      hits == {k \in model.uniqueKeys : k.name = name}
  IN  IF model.present /\ hits # {} THEN Some(CHOOSE k \in hits : TRUE) ELSE None

\* ------------------------------------------------------------ formatError
Thrown == [threw |-> TRUE, kind |-> "TypeError", fields |-> {}, errors |-> {}]

FormatErrorUnique(err, model, match) ==
  LET uniqueKey == UniqueKeyOf(model, Group(match, 1))
      g4 == Group(match, 4)
      fields ==
        IF g4 = None THEN {}
        ELSE IF uniqueKey # None
          THEN {<<uniqueKey[1].fields[i], g4[1]>> : i \in 1..Len(uniqueKey[1].fields)}
          ELSE {<<Group(match, 1), g4[1]>>}
  IN  [threw |-> FALSE, kind |-> "UniqueConstraintError", fields |-> fields,
       errors |-> {[path |-> f[1], value |-> f[2], type |-> "unique violation"] : f \in fields}]

FormatError(err, model) ==
  IF ~HasProp(err, "message") THEN Thrown  \* err.message.match of undefined
  ELSE
    LET msg == err.message
        m1 == Match(msg, "SQL0803N", <<>>)
        p532 == Match(msg, Parent532, <<"FK">>)
        p530 == Match(msg, "SQL0530N", <<>>)
        p531 == Match(msg, "SQL0531N", <<>>)
        m2 == IF p532 # <<>> THEN p532 ELSE IF p530 # <<>> THEN p530 ELSE p531
        m3 == Match(msg, CouldNotDrop, <<>>)
    IN  IF Len(m1) > 0 THEN FormatErrorUnique(err, model, m1)
        ELSE IF Len(m2) > 0
          THEN [threw |-> FALSE, kind |-> "ForeignKeyConstraintError",
                fields |-> {}, errors |-> {}, index |-> Group(m2, 1)]
        ELSE IF Len(m3) > 0
          THEN IF ~HasProp(err, "sql") THEN Thrown  \* err.sql.match of undefined
               ELSE [threw |-> FALSE, kind |-> "UnknownConstraintError",
                     fields |-> {}, errors |-> {}, message |-> Group(m3, 1),
                     constraint |-> SqlConstraint(err.sql), table |-> SqlTable(err.sql)]
        ELSE [threw |-> FALSE, kind |-> "DatabaseError", fields |-> {}, errors |-> {}]

ErrorVariants ==
  {"UniqueConstraintError", "ForeignKeyConstraintError", "UnknownConstraintError",
   "DatabaseError"}

\* ------------------------------------------------------------------ FESpec
NotCalled == [called |-> FALSE]

FEInit ==
  /\ feErr \in NativeErrors(MaxMsgLen)
  /\ feModel \in Models
  /\ feOut = NotCalled

CallFormatError ==
  /\ feOut = NotCalled
  /\ feOut' = [called |-> TRUE, out |-> FormatError(feErr, feModel)]
  /\ UNCHANGED <<feErr, feModel, connVars, runVars, pureVars>>

\* ---------------------------------------------------------------- ConnSpec
\* Text of a native open error, as far as connect reads it.
OpenTokens == {"SQL30081N", "text"}
OpenErrors ==
  { [p \in {} |-> <<>>] } \cup { [message |-> m] : m \in SeqsUpTo(OpenTokens, DriverMsgLen) }

\* The error connect rejects with on the pooled path
ConnErrorPooled(err) ==
  [kind |-> IF TruthyMsg(MessageOf(err)) /\ Contains(err.message, "SQL30081N")
              THEN "ConnectionRefusedError" ELSE "ConnectionError",
   message |-> MessageOf(err), parent |-> err]

\* Variant of ConnErrorDirect that does not tell a refusal apart
ConnErrorDirectGeneric(err) ==
  [kind |-> "ConnectionError", message |-> MessageOf(err), parent |-> err]

\* The error connect rejects with on the non-pooled path
ConnErrorDirect(err) ==
  [kind |-> IF TruthyMsg(MessageOf(err)) /\ Contains(err.message, "SQL30081N")
              THEN "ConnectionRefusedError" ELSE "ConnectionError",
   message |-> MessageOf(err), parent |-> err]

Calls == 1..MaxConnects

IdleCall ==
  [st |-> "idle", pooled |-> FALSE, opens |-> 0, settles |-> 0, native |-> None,
   error |-> None, connection |-> None, lock |-> None, closes |-> 0, closing |-> 0,
   lastValidate |-> None]

ConnInit ==
  /\ connPool \in BOOLEAN
  /\ conns = [k \in Calls |-> IdleCall]
  /\ handles = 0

\* connect(config): one native open, on the pool or on a new Database
Connect(k) ==
  /\ conns[k].st = "idle"
  /\ IF connPool
       THEN /\ conns' = [conns EXCEPT ![k].st = "opening", ![k].pooled = TRUE,
                                        ![k].opens = @ + 1]
            /\ UNCHANGED handles
       ELSE /\ conns' = [conns EXCEPT ![k].st = "opening", ![k].pooled = FALSE,
                                        ![k].opens = @ + 1,
                                        ![k].connection =
                                          Some([id |-> handles + 1, connected |-> FALSE,
                                                lib |-> "ibm_db"])]
            /\ handles' = handles + 1
  /\ UNCHANGED <<connPool, feVars, runVars, pureVars>>

\* The open callback with no error: resolve(new ResourceLock(conn))
OpenSucceeds(k) ==
  /\ conns[k].st = "opening"
  /\ IF conns[k].pooled
       THEN LET conn == [id |-> handles + 1, connected |-> TRUE]
            IN  /\ conns' = [conns EXCEPT ![k].st = "resolved", ![k].settles = @ + 1,
                                            ![k].connection = Some(conn),
                                            ![k].lock = Some(conn.id)]
                /\ handles' = handles + 1
       ELSE /\ conns' = [conns EXCEPT ![k].st = "resolved", ![k].settles = @ + 1,
                                        ![k].connection = Some([@[1] EXCEPT !.connected = TRUE]),
                                        ![k].lock = Some(conns[k].connection[1].id)]
            /\ UNCHANGED handles
  /\ UNCHANGED <<connPool, feVars, runVars, pureVars>>

\* Variant of OpenFails that opens again instead of rejecting
OpenFailsRetries(k, err) ==
  /\ conns[k].st = "opening"
  /\ conns[k].opens < 2
  /\ conns' = [conns EXCEPT ![k].opens = @ + 1, ![k].native = Some(err)]
  /\ UNCHANGED <<connPool, handles, feVars, runVars, pureVars>>

\* The open callback with an error: reject(connError)
OpenFails(k, err) ==
  /\ conns[k].st = "opening"
  /\ conns' = [conns EXCEPT ![k].st = "rejected", ![k].settles = @ + 1,
                              ![k].native = Some(err),
                              ![k].error = Some(IF conns[k].pooled THEN ConnErrorPooled(err)
                                                ELSE ConnErrorDirect(err))]
  /\ UNCHANGED <<connPool, handles, feVars, runVars, pureVars>>

\* connection.connected, as disconnect reads it
IsConnected(c) == HasProp(c, "connected") /\ c.connected

\* disconnect(connectionLock): closes counts the native close calls, closing
\* those that have not called back
Disconnect(k) ==
  /\ conns[k].st = "resolved"
  /\ IF IsConnected(conns[k].connection[1])
       THEN /\ conns[k].closes < MaxCloses
            /\ conns' = [conns EXCEPT ![k].closes = @ + 1, ![k].closing = @ + 1]
       ELSE conns' = conns
  /\ UNCHANGED <<connPool, handles, feVars, runVars, pureVars>>

\* The native close calls back: the driver clears `connected`
CloseCallback(k) ==
  /\ conns[k].closing > 0
  /\ conns' = [conns EXCEPT ![k].closing = @ - 1,
                              ![k].connection = Some([@[1] EXCEPT !.connected = FALSE])]
  /\ UNCHANGED <<connPool, handles, feVars, runVars, pureVars>>

\* connection && connection.loggedIn
ValidateResult(c) == IF HasProp(c, "loggedIn") THEN Some(c.loggedIn) ELSE None

\* validate(connectionLock); lastValidate records the value returned, whether
\* no close had been asked of the handle at the call, and whether the handle
\* was closed
Validate(k) ==
  /\ conns[k].st = "resolved"
  /\ conns' = [conns EXCEPT ![k].lastValidate =
                                Some([result |-> ValidateResult(conns[k].connection[1]),
                                      live |-> conns[k].closes = 0,
                                      closed |-> ~IsConnected(conns[k].connection[1])])]
  /\ UNCHANGED <<connPool, handles, feVars, runVars, pureVars>>

ConnNext ==
  \/ \E k \in Calls : Connect(k)
  \/ \E k \in Calls : OpenSucceeds(k)
  \/ \E k \in Calls, err \in OpenErrors : OpenFails(k, err)
  \/ \E k \in Calls : Disconnect(k)
  \/ \E k \in Calls : CloseCallback(k)
  \/ \E k \in Calls : Validate(k)

FENext == CallFormatError

\* -------------------------------------------------------------------- Spec
\* SQL text is a sequence of words; _.startsWith compares a prefix.
StartsWith(sql, prefix) ==
  Len(prefix) <= Len(sql) /\ SubSeq(sql, 1, Len(prefix)) = prefix

SqlInputs ==
  { <<"BEGIN", "TRANSACTION">>, <<"COMMIT", "TRANSACTION">>,
    <<"ROLLBACK", "TRANSACTION">>, <<"SAVE", "TRANSACTION", "sp1">>,
    <<"BEGIN">>, <<"DROP", "TABLE", "t">> }

\* A run's SQL and whether options.transaction is set (read for SAVE only)
RunInputs ==
  {<<sql, TRUE>> : sql \in SqlInputs} \cup {<<<<"SAVE", "TRANSACTION", "sp1">>, FALSE>>}

\* Errors the native driver hands to a callback (sql is set by _run, not by it)
DriverErrors ==
  { [p \in {} |-> <<>>] } \cup { [message |-> m] : m \in Messages(DriverMsgLen) }

\* The result argument of the execute callback: rows is the length of what
\* fetchAllSync returns, parsed the number of its cells that are not null and
\* for which the lookup of the parse loop finds a parser (one column per row)
DriverResults ==
  { [type |-> "undefined"], [type |-> "null"] }
    \cup { res \in { [type |-> "object", rows |-> n, parsed |-> p, fetchThrows |-> b] :
             n \in 0..MaxRows, p \in 0..MaxRows, b \in BOOLEAN }
            : res.parsed <= res.rows }

\* typeof(result)
TypeOf(result) == IF result.type = "undefined" THEN "undefined" ELSE "object"

\* this.model of the Query that runs
RunModel == [present |-> TRUE, uniqueKeys |-> {}]

Runs == 1..MaxRuns

NoValue == [kind |-> "none"]

IdleRun ==
  [pc |-> "idle", sql |-> <<>>, hasTxn |-> FALSE, promise |-> "pending",
   value |-> NoValue, attempts |-> 0, uncaught |-> FALSE, calls |-> <<>>,
   benign |-> FALSE, resultType |-> "none", datalen |-> None]

RunInit ==
  /\ runs = [r \in Runs |-> IdleRun]
  /\ lockq = <<>>
  /\ txnOpen = FALSE

\* ResourceLock.lock(): the request joins the chain behind the earlier ones
Lock(q, r) == Append(q, r)
\* The disposer of lock() resolves for the request at the head of the chain
Holder(q, r) == q # <<>> /\ Head(q) = r
\* The disposer's resolve: the next request may proceed
Unlock(q) == Tail(q)

\* resolve(v) / reject(v): only the first settles the promise
Resolve(run, v) ==
  [run EXCEPT !.attempts = @ + 1,
              !.promise = IF run.promise = "pending" THEN "resolved" ELSE @,
              !.value = IF run.promise = "pending" THEN v ELSE @]
Reject(run, v) ==
  [run EXCEPT !.attempts = @ + 1,
              !.promise = IF run.promise = "pending" THEN "rejected" ELSE @,
              !.value = IF run.promise = "pending" THEN v ELSE @]
\* An exception leaves a driver callback: nothing settles the promise
Escapes(run) == [run EXCEPT !.uncaught = TRUE, !.pc = "done"]
NativeCall(run, name) == [run EXCEPT !.calls = Append(@, name)]

\* this.formatResults(data, rowCount, metadata), by its arguments
FormatResults(data, rowCount, metadata) ==
  [kind |-> "results", data |-> data, rowCount |-> rowCount, metadata |-> metadata]

\* run(sql, parameters): Promise.using(this.connection.lock(), ...)
Run(r, sql, hasTxn) ==
  /\ runs[r].pc = "idle"
  /\ \A q \in Runs : q < r => runs[q].pc # "idle"
  /\ runs' = [runs EXCEPT ![r].pc = "queued", ![r].sql = sql, ![r].hasTxn = hasTxn]
  /\ lockq' = Lock(lockq, r)
  /\ UNCHANGED <<txnOpen, feVars, connVars, pureVars>>

\* Variant of CanEnter that calls _run without waiting for the lock
CanEnterUnlocked(r) == TRUE

\* Promise.using calls _run once the lock's disposer has resolved for r
CanEnter(r) == Holder(lockq, r)

\* The promise executor of _run, up to its first native call
EnterRun(run) ==
  IF StartsWith(run.sql, <<"BEGIN", "TRANSACTION">>)
    THEN [NativeCall(run, "beginTransaction") EXCEPT !.pc = "txn"]
  ELSE IF StartsWith(run.sql, <<"COMMIT", "TRANSACTION">>)
    THEN [NativeCall(run, "commitTransaction") EXCEPT !.pc = "txn"]
  ELSE IF StartsWith(run.sql, <<"ROLLBACK", "TRANSACTION">>)
    THEN [NativeCall(run, "rollbackTransaction") EXCEPT !.pc = "txn"]
  ELSE IF StartsWith(run.sql, <<"SAVE", "TRANSACTION">>)
    THEN IF run.hasTxn
           THEN [NativeCall(run, "commitTransaction") EXCEPT !.pc = "txn"]
           \* this.options.transaction.name of undefined: the executor throws
           \* and the promise rejects with the exception
           ELSE [Reject(run, Thrown) EXCEPT !.pc = "done"]
  ELSE [NativeCall(run, "prepare") EXCEPT !.pc = "prepare"]

Enter(r) ==
  /\ runs[r].pc = "queued"
  /\ CanEnter(r)
  /\ runs' = [runs EXCEPT ![r] = EnterRun(runs[r])]
  /\ UNCHANGED <<lockq, txnOpen, feVars, connVars, pureVars>>

\* Variant of AfterTxn: reject(err) without the translation
AfterTxnRaw(run, err) ==
  IF err # None
    THEN [Reject(run, [threw |-> FALSE, kind |-> "NativeError", fields |-> {},
                       errors |-> {}]) EXCEPT !.pc = "done"]
    ELSE [Resolve(run, FormatResults(None, None, FALSE)) EXCEPT !.pc = "done"]

\* The callback of beginTransaction / commitTransaction / rollbackTransaction
AfterTxn(run, err) ==
  IF err # None
    THEN LET fe == FormatError(err[1], RunModel)
         IN  IF fe.threw THEN Escapes(run)
             ELSE [Reject(run, fe) EXCEPT !.pc = "done"]
    ELSE [Resolve(run, FormatResults(None, None, FALSE)) EXCEPT !.pc = "done"]

\* The native connection after a transaction call has called back: begin
\* opens a transaction, commit and rollback end it, a failed call changes
\* nothing
TxnEffect(open, call, err) ==
  IF err # None THEN open
  ELSE IF call = "beginTransaction" THEN TRUE
  ELSE FALSE

TxnCallback(r, err) ==
  /\ runs[r].pc = "txn"
  /\ runs' = [runs EXCEPT ![r] = AfterTxn(runs[r], err)]
  /\ txnOpen' = TxnEffect(txnOpen, runs[r].calls[1], err)
  /\ UNCHANGED <<lockq, feVars, connVars, pureVars>>

\* The callback of connection.prepare: on an error there is no stmt, and
\* stmt.execute throws after the reject
AfterPrepare(run, err) ==
  IF err # None
    THEN LET fe == FormatError(err[1], RunModel)
         IN  IF fe.threw THEN Escapes(run)
             ELSE Escapes(Reject(run, fe))
    ELSE [NativeCall(run, "execute") EXCEPT !.pc = "execute"]

PrepareCallback(r, err) ==
  /\ runs[r].pc = "prepare"
  /\ runs' = [runs EXCEPT ![r] = AfterPrepare(runs[r], err)]
  /\ UNCHANGED <<lockq, txnOpen, feVars, connVars, pureVars>>

BenignCodes == {"SQL0204N", "SQL0478N", "SQL0601N", "SQL0605W"}

\* if (err && err.message) { ... err = null ... }
SuppressBenign(err) ==
  IF /\ err # None
     /\ TruthyMsg(MessageOf(err[1]))
     /\ \E c \in BenignCodes : Contains(err[1].message, c)
    THEN None ELSE err

\* value = parse(value), n times: the calls of the parse loop
ParseCells(run, n) == [run EXCEPT !.calls = @ \o [i \in 1..n |-> "parse"]]

\* The three synchronous calls on a result object
Fetch(run) ==
  NativeCall(NativeCall(NativeCall(run, "fetchAllSync"), "getColumnMetadataSync"),
             "closeSync")

\* Variant of ShapeResult that treats an empty row set as a failure
ShapeResultRejectsEmpty(run, result) ==
  IF TypeOf(result) = "object"
    THEN IF result.type = "null" THEN Escapes(run)
         ELSE IF result.fetchThrows THEN Escapes(NativeCall(run, "fetchAllSync"))
         ELSE LET fetched == [Fetch(run) EXCEPT !.datalen = Some(result.rows)]
              IN  IF result.rows > 0
                    THEN [Resolve(ParseCells(fetched, result.parsed),
                                  FormatResults(Some(result.rows), Some(result.rows), TRUE))
                            EXCEPT !.pc = "done"]
                    ELSE [Reject(fetched, [threw |-> FALSE, kind |-> "DatabaseError",
                                           fields |-> {}, errors |-> {}])
                            EXCEPT !.pc = "done"]
    ELSE [Resolve(run, FormatResults(Some(0), Some(0), FALSE))
            EXCEPT !.pc = "done", !.datalen = Some(0)]

\* The else branch of the execute callback: fetch and shape the rows
ShapeResult(run, result) ==
  IF TypeOf(result) = "object"
    THEN IF result.type = "null" THEN Escapes(run)  \* null.fetchAllSync
         ELSE IF result.fetchThrows THEN Escapes(NativeCall(run, "fetchAllSync"))
         ELSE LET fetched == [Fetch(run) EXCEPT !.datalen = Some(result.rows)]
              IN  IF result.rows > 0
                    THEN [Resolve(ParseCells(fetched, result.parsed),
                                  FormatResults(Some(result.rows), Some(result.rows), TRUE))
                            EXCEPT !.pc = "done"]
                    ELSE [Resolve(fetched, FormatResults(Some(0), Some(0), FALSE))
                            EXCEPT !.pc = "done"]
    ELSE [Resolve(run, FormatResults(Some(0), Some(0), FALSE))
            EXCEPT !.pc = "done", !.datalen = Some(0)]

\* The callback of stmt.execute
AfterExecute(run, err, result) ==
  LET e == SuppressBenign(err)
  IN  IF e # None
        THEN LET fe == FormatError(SetProp(e[1], "sql", run.sql), RunModel)
             IN  IF fe.threw THEN Escapes(run)
                 ELSE [Reject(run, fe) EXCEPT !.pc = "done"]
        ELSE ShapeResult(run, result)

\* benign / resultType record what the driver delivered: whether the error
\* text held one of the ignored codes, and the kind of the result argument
ExecuteCallback(r, err, result) ==
  /\ runs[r].pc = "execute"
  /\ runs' = [runs EXCEPT ![r] =
                [AfterExecute(runs[r], err, result) EXCEPT
                   !.benign = /\ err # None
                              /\ HasProp(err[1], "message")
                              /\ \E i \in 1..Len(err[1].message) :
                                    err[1].message[i] \in BenignCodes,
                   !.resultType = result.type]]
  /\ UNCHANGED <<lockq, txnOpen, feVars, connVars, pureVars>>

\* The disposer runs once the promise returned by _run has settled; of the
\* finished Query only the settled promise is kept
Dispose ==
  /\ lockq # <<>>
  /\ runs[Head(lockq)].promise # "pending"
  /\ lockq' = Unlock(lockq)
  /\ runs' = [runs EXCEPT ![Head(lockq)] =
                [IdleRun EXCEPT !.pc = "released", !.promise = runs[Head(lockq)].promise,
                                !.value = runs[Head(lockq)].value]]
  /\ UNCHANGED <<txnOpen, feVars, connVars, pureVars>>

OptErrors == {None} \cup {Some(e) : e \in DriverErrors}

DriverStep ==
  \/ \E r \in Runs, err \in OptErrors : TxnCallback(r, err)
  \/ \E r \in Runs, err \in OptErrors : PrepareCallback(r, err)
  \/ \E r \in Runs, err \in OptErrors, result \in DriverResults :
        ExecuteCallback(r, err, result)

RunNext ==
  \/ \E r \in Runs, in \in RunInputs : Run(r, in[1], in[2])
  \/ \E r \in Runs : Enter(r)
  \/ DriverStep
  \/ Dispose

\* ---------------------------------------------------------------- TypeSpec
\* A JavaScript value the type code handles: a number, a string, a boolean,
\* a Buffer, null, undefined. A numeral inside SQL text is the number itself.
Num(n) == [t |-> "num", n |-> n]
Str(s) == [t |-> "str", s |-> s]
Bool(b) == [t |-> "bool", b |-> b]
Buf(bytes) == [t |-> "buf", bytes |-> bytes]
Null == [t |-> "null"]
Undefined == [t |-> "undefined"]
\* The falsy _length the base constructor leaves when no length is given
Absent == Str("")

\* if (v)
Truthy(v) ==
  \/ v.t = "num" /\ v.n # 0
  \/ v.t = "str" /\ v.s # ""
  \/ v.t = "bool" /\ v.b
  \/ v.t = "buf"

\* String.prototype.toLowerCase on the strings of the model
Lower(s) == IF s = "TINY" THEN "tiny" ELSE s
\* v.toLowerCase(): a TypeError unless v is a string
CanLower(v) == v.t = "str"
\* isNaN(v): none of the strings of the model is a numeral
IsNaN(v) == v.t = "str" /\ v.s # ""

\* SQL type text: a name and what stands between the parentheses, if any
Sql(name, arg) == [name |-> name, arg |-> arg]
\* What a toSql call did: the text returned or the exception, and the
\* descriptor afterwards
Returns(d, sql) == [threw |-> FALSE, sql |-> sql, desc |-> d]
Throws(d) == [threw |-> TRUE, sql |-> Sql("", None), desc |-> d]

Files == {"part_000", "data-types.js"}
LengthWords == {"tiny", "medium", "long", "TINY", "abc"}
LengthNums == {1, 255, 4000, 4001, 40000}
Precisions == (0 - 1)..MaxPrecision

\* new BLOB(length), new TEXT(length), new STRING(length, binary),
\* new DATE(length), new BOOLEAN(), ...: the descriptor the constructor leaves
Descriptor(file, key, length, binary) ==
  [file |-> file, key |-> key, _length |-> length, _binary |-> binary]

Descriptors ==
  {Descriptor(f, k, l, FALSE) :
     f \in Files, k \in {"BLOB", "TEXT"},
     l \in {Absent} \cup {Str(w) : w \in LengthWords} \cup {Num(n) : n \in LengthNums}}
  \cup {Descriptor(f, "STRING", Num(n), b) : f \in Files, n \in LengthNums, b \in BOOLEAN}
  \cup {Descriptor(f, "DATE", l, FALSE) :
          f \in Files, l \in {Absent} \cup {Num(n) : n \in Precisions}}
  \cup {Descriptor(f, k, Absent, FALSE) :
          f \in Files, k \in {"BOOLEAN", "UUID", "NOW", "ENUM", "DOUBLE"}}

\* BLOB.prototype.toSql (the same in both files)
BlobToSql(d) ==
  IF Truthy(d._length)
    THEN IF ~CanLower(d._length) THEN Throws(d)
         ELSE IF Lower(d._length.s) = "tiny" THEN Returns(d, Sql("BLOB", Some(Num(255))))
         ELSE IF Lower(d._length.s) = "medium" THEN Returns(d, Sql("BLOB", Some(Str("16M"))))
         ELSE IF Lower(d._length.s) = "long" THEN Returns(d, Sql("BLOB", Some(Str("2G"))))
         ELSE Returns(d, Sql("BLOB", Some(d._length)))
    ELSE Returns(d, Sql("BLOB", None))

\* STRING.prototype.toSql
StringToSql(d) ==
  IF d.file = "part_000"
    THEN IF ~d._binary
           THEN IF d._length.n <= 4000 THEN Returns(d, Sql("VARCHAR", Some(d._length)))
                ELSE Returns(d, Sql("CLOB", Some(d._length)))
           ELSE IF d._length.n < 255
                  THEN Returns(d, Sql("CHAR FOR BIT DATA", Some(d._length)))
                ELSE IF d._length.n <= 4000
                  THEN Returns(d, Sql("VARCHAR FOR BIT DATA", Some(d._length)))
                ELSE Returns(d, Sql("BLOB", Some(d._length)))
    ELSE IF ~d._binary THEN Returns(d, Sql("VARCHAR", Some(d._length)))
         ELSE Returns(d, Sql("BINARY", Some(d._length)))

\* The switch of TEXT.prototype.toSql
TextLen(word) ==
  IF word = "tiny" THEN 256 ELSE IF word = "medium" THEN 8192
  ELSE IF word = "long" THEN 65536 ELSE 0

\* this._length after the if/else of TEXT.prototype.toSql in part_000
TextLength(length) ==
  IF Truthy(length)
    THEN LET len == TextLen(Lower(length.s))
             l1 == IF IsNaN(length) THEN Num(32672) ELSE length
         IN  IF len > 0 THEN Num(len) ELSE l1
    ELSE Num(32672)

\* TEXT.prototype.toSql
TextToSql(d) ==
  IF d.file = "part_000"
    THEN IF Truthy(d._length) /\ ~CanLower(d._length) THEN Throws(d)
         ELSE LET l == TextLength(d._length)
                  d1 == [d EXCEPT !._length = l]
              IN  IF l.n > 32672 THEN Returns(d1, Sql("CLOB", Some(l)))
                  ELSE Returns(d1, Sql("VARCHAR", Some(l)))
    ELSE IF Truthy(d._length)
           THEN IF ~CanLower(d._length) THEN Throws(d)
                ELSE IF Lower(d._length.s) = "tiny"
                  THEN Returns(d, Sql("VARCHAR", Some(Num(256))))
                ELSE Returns(d, Sql("VARCHAR", Some(Str("MAX"))))
         ELSE Returns(d, Sql("VARCHAR", Some(Str("MAX"))))

\* this._length after the two clamping statements of DATE.prototype.toSql
Clamp(length) ==
  LET l1 == IF length.t = "num" /\ length.n < 0 THEN Num(0) ELSE length
  IN  IF l1.t = "num" /\ l1.n > 6 THEN Num(6) ELSE l1

\* DATE.prototype.toSql
DateToSql(d) ==
  IF d.file = "part_000"
    THEN LET d1 == [d EXCEPT !._length = Clamp(d._length)]
         IN  Returns(d1, Sql("TIMESTAMP",
                             IF Truthy(d1._length) THEN Some(d1._length) ELSE None))
    ELSE Returns(d, Sql("TIMESTAMP", None))

\* toSql of the types that take no option
FixedToSql(d) ==
  IF d.key = "BOOLEAN"
    THEN Returns(d, Sql(IF d.file = "part_000" THEN "BOOLEAN" ELSE "BIT", None))
  ELSE IF d.key = "UUID"
    THEN Returns(d, Sql(IF d.file = "part_000" THEN "CHAR FOR BIT DATA" ELSE "CHAR",
                        Some(Num(36))))
  ELSE IF d.key = "NOW"
    THEN Returns(d, Sql(IF d.file = "part_000" THEN "CURRENT TIME" ELSE "GETDATE()", None))
  ELSE IF d.key = "ENUM" THEN Returns(d, Sql("VARCHAR", Some(Num(255))))
  ELSE Returns(d, Sql("DOUBLE", None))

\* descriptor.toSql(), by the prototype of the descriptor
ToSql(d) ==
  IF d.key = "BLOB" THEN BlobToSql(d)
  ELSE IF d.key = "STRING" THEN StringToSql(d)
  ELSE IF d.key = "TEXT" THEN TextToSql(d)
  ELSE IF d.key = "DATE" THEN DateToSql(d)
  ELSE FixedToSql(d)

\* The number of 'S' that the loop of DATE.prototype._stringify appends
Fraction(length) ==
  IF length.t = "num" /\ length.n > 0
    THEN Cardinality({i \in 0..5 : i < length.n})
    ELSE 0

\* DATE.prototype._stringify: the format handed to date.format, as the
\* number of fractional-second digits it asks for
DateStringify(d) == [format |-> "YYYY-MM-DD HH:mm:ss", fraction |-> Fraction(d._length)]

JsValues ==
  {Null, Undefined, Bool(TRUE), Bool(FALSE)}
    \cup {Num(n) : n \in 0..2}
    \cup {Str(w) : w \in {"true", "false", "u0001", "u0000", "yes"}}
    \cup {Buf(b) : b \in SeqsUpTo(0..2, 2)}

\* Variant of Sanitize that does not unwrap a Buffer
SanitizeNoBuffer(value) ==
  IF value.t \in {"null", "undefined"} THEN value
  ELSE IF value.t = "str"
    THEN LET v2 == IF value.s = "true" THEN Bool(TRUE)
                   ELSE IF value.s = "false" THEN Bool(FALSE) ELSE value
         IN  IF v2 = Str("u0001") THEN Bool(TRUE)
             ELSE IF v2 = Str("u0000") THEN Bool(FALSE) ELSE v2
  ELSE IF value.t = "num"
    THEN IF value.n = 1 THEN Bool(TRUE) ELSE IF value.n = 0 THEN Bool(FALSE) ELSE value
  ELSE value

\* BOOLEAN.prototype._sanitize, which is also BOOLEAN.parse
Sanitize(value) ==
  IF value.t \in {"null", "undefined"} THEN value
  ELSE LET v1 == IF value.t = "buf" /\ Len(value.bytes) = 1
                   THEN Num(value.bytes[1]) ELSE value
       IN  IF v1.t = "str"
             THEN LET v2 == IF v1.s = "true" THEN Bool(TRUE)
                            ELSE IF v1.s = "false" THEN Bool(FALSE) ELSE v1
                  IN  IF v2 = Str("u0001") THEN Bool(TRUE)
                      ELSE IF v2 = Str("u0000") THEN Bool(FALSE) ELSE v2
           ELSE IF v1.t = "num"
             THEN IF v1.n = 1 THEN Bool(TRUE)
                  ELSE IF v1.n = 0 THEN Bool(FALSE) ELSE v1
           ELSE v1

NotSanitized == [called |-> FALSE]

TypeInit ==
  /\ desc \in Descriptors
  /\ made = desc
  /\ sqls = <<>>
  /\ strs = None
  /\ san = NotSanitized

\* descriptor.toSql(); a descriptor is used until a call throws
CallToSql ==
  /\ Len(sqls) < MaxToSql
  /\ \A i \in 1..Len(sqls) : ~sqls[i].threw
  /\ LET out == ToSql(desc)
     IN  /\ sqls' = Append(sqls, [threw |-> out.threw, sql |-> out.sql])
         /\ desc' = out.desc
  /\ UNCHANGED <<made, strs, san, feVars, connVars, runVars, parseVars, bindVars>>

\* descriptor._stringify(date, options) of a DATE of part_000
CallStringify ==
  /\ desc.key = "DATE" /\ desc.file = "part_000"
  /\ strs' = Some(DateStringify(desc))
  /\ UNCHANGED <<desc, made, sqls, san, feVars, connVars, runVars, parseVars, bindVars>>

\* BOOLEAN.parse(value)
CallSanitize(value) ==
  /\ desc.key = "BOOLEAN" /\ desc.file = "part_000"
  /\ san' = [called |-> TRUE, value |-> value, out |-> Sanitize(value)]
  /\ UNCHANGED <<desc, made, sqls, strs, feVars, connVars, runVars, parseVars, bindVars>>

TypeNext ==
  \/ CallToSql
  \/ CallStringify
  \/ \E value \in JsValues : CallSanitize(value)

\* --------------------------------------------------------------- ParseSpec
\* A column of a result set: its name (the key of the cell in each row), and
\* SQL_DESC_CONCISE_TYPE and SQL_DESC_TYPE_NAME of its metadata entry. Db2
\* names an unnamed expression column by its position ("1"); object keys are
\* strings, so a concise type code is the string of its number.
Columns ==
  { [name |-> "ID", concise |-> "4", typeName |-> "INTEGER"],
    [name |-> "FLAG", concise |-> "16", typeName |-> "BOOLEAN"],
    [name |-> "1", concise |-> "1", typeName |-> "CHAR"] }
TypeNames == {c.typeName : c \in Columns}

\* What getColumnMetadataSync returns: entries with distinct column names
Metadatas ==
  { m \in SeqsUpTo(Columns, 2) :
      m # <<>> /\ \A i, j \in 1..Len(m) : i # j => m[i].name # m[j].name }

CellValues == {Null, Str("raw")}
\* What fetchAllSync returns for the columns of metadata m
RowsOf(m) == [{m[i].name : i \in 1..Len(m)} -> CellValues]
DataOf(m) == SeqsUpTo(RowsOf(m), MaxRows)

\* parse(value) of the parser registered for a type name
Parsed(typeName, value) == [t |-> "parsed", by |-> typeName, raw |-> value]

\* coltypes after the loop over metadata: later entries overwrite
ColTypes(metadata) ==
  [k \in {metadata[i].concise : i \in 1..Len(metadata)} |->
     LET last == CHOOSE i \in 1..Len(metadata) :
                   /\ metadata[i].concise = k
                   /\ \A j \in 1..Len(metadata) : j > i => metadata[j].concise # k
     IN  metadata[last].typeName]

\* parserStore.get(coltypes[column]): the type name whose parser is found
ParserOf(store, coltypes, column) ==
  IF column \in DOMAIN coltypes /\ coltypes[column] \in store
    THEN Some(coltypes[column]) ELSE None

\* The body of the loop over the columns of a row
ParseCell(store, coltypes, column, value) ==
  LET parse == ParserOf(store, coltypes, column)
  IN  IF value # Null /\ parse # None THEN Parsed(parse[1], value) ELSE value

\* data after the loops over rows and columns
ParseRows(data, metadata, store) ==
  [i \in 1..Len(data) |->
     [c \in DOMAIN data[i] |-> ParseCell(store, ColTypes(metadata), c, data[i][c])]]

\* The parser calls of those loops: which parser, with which argument
ParserCalls(data, metadata, store) ==
  { [by |-> ParserOf(store, ColTypes(metadata), ic[2])[1], arg |-> data[ic[1]][ic[2]]] :
      ic \in { ic \in (1..Len(data)) \X {col.name : col \in Columns} :
                 /\ ic[2] \in DOMAIN data[ic[1]]
                 /\ data[ic[1]][ic[2]] # Null
                 /\ ParserOf(store, ColTypes(metadata), ic[2]) # None } }

NotParsed == [called |-> FALSE]

ParseInit ==
  /\ \E m \in Metadatas, store \in SUBSET TypeNames :
       \E d \in DataOf(m) : parseIn = [data |-> d, metadata |-> m, store |-> store]
  /\ parseOut = NotParsed

\* The success branch of the execute callback on a fetched result
CallParse ==
  /\ ~parseOut.called
  /\ parseOut' =
       IF Len(parseIn.data) > 0
         THEN [called |-> TRUE,
               data |-> ParseRows(parseIn.data, parseIn.metadata, parseIn.store),
               calls |-> ParserCalls(parseIn.data, parseIn.metadata, parseIn.store)]
         ELSE [called |-> TRUE, data |-> parseIn.data, calls |-> {}]
  /\ UNCHANGED <<parseIn, feVars, connVars, runVars, typeVars, bindVars>>

ParseNext == CallParse

\* ---------------------------------------------------------------- BindSpec
\* SQL text with bind references: a token is a piece of text or $key.
TextTok == [kind |-> "text"]
Ref(key) == [kind |-> "ref", key |-> key]
Placeholder == [kind |-> "?"]

\* $1, $2 address an array of bind values; $a, $b an object
ListKeys == {"1", "2"}
NamedKeys == {"a", "b"}
BindValues == {Str("x"), Str("y"), Buf(<<1>>)}

\* key - 1 for a list: the array index as a property name
IndexOf(key) == IF key = "1" THEN "0" ELSE "1"
\* The array [v0, ...] as an object with the properties "0", "1"
ArrayOf(seq) == [k \in {IndexOf(key) : key \in {x \in ListKeys : (IF x = "1" THEN 1 ELSE 2) <= Len(seq)}}
                   |-> IF k = "0" THEN seq[1] ELSE seq[2]]

BindInputs ==
  { [sql |-> q, list |-> TRUE, values |-> ArrayOf(v)] :
      q \in SeqsUpTo({TextTok} \cup {Ref(k) : k \in ListKeys}, MaxSqlLen),
      v \in SeqsUpTo(BindValues, 2) }
  \cup
  { [sql |-> q, list |-> FALSE, values |-> v] :
      q \in SeqsUpTo({TextTok} \cup {Ref(k) : k \in NamedKeys}, MaxSqlLen),
      v \in UNION {[ks -> BindValues] : ks \in SUBSET NamedKeys} }

\* The key that AbstractQuery.formatBindParameters hands to replacementFunc
ReplacementKey(list, key) == IF list THEN IndexOf(key) ELSE key

\* The references of the SQL text, left to right, as replacement keys
RECURSIVE RefKeys(_, _)
RefKeys(sql, list) ==
  IF sql = <<>> THEN <<>>
  ELSE IF Head(sql).kind = "ref"
    THEN <<ReplacementKey(list, Head(sql).key)>> \o RefKeys(Tail(sql), list)
  ELSE RefKeys(Tail(sql), list)

\* bindParam[key] = values[key] for each key in turn: the property names in
\* the order of their first assignment
RECURSIVE Insertions(_)
Insertions(keys) ==
  IF keys = <<>> THEN <<>>
  ELSE LET before == Insertions(SubSeq(keys, 1, Len(keys) - 1))
           k == keys[Len(keys)]
       IN  IF \E i \in 1..Len(before) : before[i] = k THEN before ELSE Append(before, k)

\* Own property names as _.forOwn visits them: array indices in ascending
\* order first, then the other names in insertion order
OwnKeys(inserted) ==
  LET has(k) == \E i \in 1..Len(inserted) : inserted[i] = k
      isIndex(k) == k \in {"0", "1"}
  IN  (IF has("0") THEN <<"0">> ELSE <<>>) \o (IF has("1") THEN <<"1">> ELSE <<>>)
        \o SelectSeq(inserted, LAMBDA k : ~isIndex(k))

\* getSQLTypeFromJsType(value)
GetSQLTypeFromJsType(value) ==
  IF value.t = "buf" THEN [ParamType |-> "INPUT", Data |-> value, DataType |-> "BLOB"]
  ELSE value

\* formatBindParameters(sql, values, dialect), then params as _run builds it
\* from the bindParam object. A reference without a value makes
\* AbstractQuery.formatBindParameters throw.
BindAndRun(in) ==
  LET keys == RefKeys(in.sql, in.list)
      inserted == Insertions(keys)
      own == OwnKeys(inserted)
  IN  IF \E i \in 1..Len(keys) : keys[i] \notin DOMAIN in.values
        THEN [called |-> TRUE, threw |-> TRUE]
        ELSE [called |-> TRUE, threw |-> FALSE,
              sql |-> [i \in 1..Len(in.sql) |->
                         IF in.sql[i].kind = "ref" THEN Placeholder ELSE in.sql[i]],
              params |-> [i \in 1..Len(own) |-> GetSQLTypeFromJsType(in.values[own[i]])]]

NotBound == [called |-> FALSE]

BindInit ==
  /\ bindIn \in BindInputs
  /\ bindOut = NotBound

CallBind ==
  /\ ~bindOut.called
  /\ bindOut' = BindAndRun(bindIn)
  /\ UNCHANGED <<bindIn, feVars, connVars, runVars, typeVars, parseVars>>

BindNext == CallBind

\* ---------------------------------------------------------- specifications
FEIdle == feErr = <<>> /\ feModel = RunModel /\ feOut = NotCalled
ConnIdle == connPool = FALSE /\ conns = [k \in Calls |-> IdleCall] /\ handles = 0
TypeIdle ==
  /\ desc = Descriptor("part_000", "BOOLEAN", Absent, FALSE)
  /\ made = desc /\ sqls = <<>> /\ strs = None /\ san = NotSanitized
ParseIdle == parseIn = <<>> /\ parseOut = NotParsed
BindIdle == bindIn = <<>> /\ bindOut = NotBound
PureIdle == TypeIdle /\ ParseIdle /\ BindIdle

FESpecInit == FEInit /\ ConnIdle /\ RunInit /\ PureIdle
FESpec == FESpecInit /\ [][FENext]_vars

ConnSpecInit == FEIdle /\ ConnInit /\ RunInit /\ PureIdle
ConnSpec == ConnSpecInit /\ [][ConnNext]_vars

TypeSpecInit == FEIdle /\ ConnIdle /\ RunInit /\ TypeInit /\ ParseIdle /\ BindIdle
TypeSpec == TypeSpecInit /\ [][TypeNext]_vars

ParseSpecInit == FEIdle /\ ConnIdle /\ RunInit /\ TypeIdle /\ ParseInit /\ BindIdle
ParseSpec == ParseSpecInit /\ [][ParseNext]_vars

BindSpecInit == FEIdle /\ ConnIdle /\ RunInit /\ TypeIdle /\ ParseIdle /\ BindInit
BindSpec == BindSpecInit /\ [][BindNext]_vars

\* The lock that connect call 1 resolved with (Connect(1), OpenSucceeds(1) on
\* the non-pooled path); the runs of Spec take this lock
OpenedCall ==
  [IdleCall EXCEPT !.st = "resolved", !.opens = 1, !.settles = 1,
                   !.connection = Some([id |-> 1, connected |-> TRUE, lib |-> "ibm_db"]),
                   !.lock = Some(1)]
SessionInit ==
  /\ FEIdle /\ RunInit /\ PureIdle
  /\ connPool = FALSE
  /\ conns = [k \in Calls |-> IF k = 1 THEN OpenedCall ELSE IdleCall]
  /\ handles = 1
SessionNext ==
  \/ RunNext
  \/ Disconnect(1)
  \/ CloseCallback(1)
SessionSpec == SessionInit /\ [][SessionNext]_vars

Init == FEIdle /\ ConnIdle /\ RunInit /\ PureIdle
Next == RunNext
Spec == Init /\ [][Next]_vars

\* The event loop runs every callback that is due: a driver callback, the
\* continuation of Promise.using, the lock's disposer.
LiveSpec ==
  Spec /\ WF_vars(DriverStep) /\ WF_vars(Dispose) /\ WF_vars(\E r \in Runs : Enter(r))

\* ------------------------------------------------------------------ claims
Acquired(r) == Holder(lockq, r) /\ runs[r].pc # "queued"
Started(r) == runs[r].calls # <<>>
InFlight(r) == Started(r) /\ runs[r].promise = "pending"
Settled(r) == runs[r].promise # "pending"

\* C1: whatever the driver does, a run that has acquired the connection lock
\* eventually releases it. (Fails: after an exception in a driver callback the
\* promise of _run stays pending and the lock is held for ever.)
C1_LockEventuallyReleased == \A r \in Runs : Acquired(r) ~> ~Acquired(r)

\* C2: at most one run is between its first native call and its settlement;
\* a run has issued a native call only if every earlier run has settled and
\* left the lock; a waiting run whose predecessors have all settled can
\* proceed (the disposer or its own _run is enabled).
C2_OneRunInFlight ==
  /\ \A r1, r2 \in Runs : r1 # r2 => ~(InFlight(r1) /\ InFlight(r2))
  /\ \A r, q \in Runs :
       q < r /\ Started(r) =>
         Settled(q) /\ ~(\E i \in 1..Len(lockq) : lockq[i] = q)
  /\ \A r \in Runs :
       runs[r].pc = "queued" /\ (\A q \in Runs : q < r => Settled(q)) =>
         ENABLED (Dispose \/ Enter(r))

\* C2 witness: the first run waits for its execute callback while the second
\* has asked for the lock
C2_Witness ==
  /\ runs[1].pc = "execute" /\ InFlight(1)
  /\ runs[2].pc = "queued"
  /\ lockq = <<1, 2>>

\* C3: at most one native close is ever issued per connection, however the
\* disconnect calls are timed. (Fails: `connected` is cleared only when the
\* close calls back.)
C3_AtMostOneClose == \A k \in Calls : conns[k].closes <= 1

\* C4: formatError never throws and returns one of the four error variants.
\* (Fails for an error without a message, and for the drop-constraint text
\* on an error without sql.)
C4_FormatErrorTotal ==
  feOut.called => ~feOut.out.threw /\ feOut.out.kind \in ErrorVariants

C6_ConnectErrorKinds ==
  \A k \in Calls :
    conns[k].st = "rejected" =>
      LET native == conns[k].native[1]
          e == conns[k].error[1]
          refused == /\ HasProp(native, "message")
                     /\ \E i \in 1..Len(native.message) : native.message[i] = "SQL30081N"
      IN  /\ e.kind = IF refused THEN "ConnectionRefusedError" ELSE "ConnectionError"
          /\ e.message = IF HasProp(native, "message") THEN Some(native.message) ELSE None

\* C6 witness: a refused connection on the non-pooled path
C6_Witness ==
  \E k \in Calls :
    /\ conns[k].st = "rejected"
    /\ ~conns[k].pooled
    /\ conns[k].error[1].kind = "ConnectionRefusedError"

C8_ValidateReportsLiveness ==
  \A k \in Calls :
    conns[k].lastValidate # None =>
      LET v == conns[k].lastValidate[1]
          truthy == v.result # None /\ v.result[1] = TRUE
      IN  (v.live => truthy) /\ (v.closed => ~truthy)

\* C9: for a message containing SQL0803N formatError returns a
\* UniqueConstraintError with a non-empty fields mapping and one error item
\* per field. (Fails: the pattern has no groups, fields stays empty.)
C9_UniqueFieldsNonEmpty ==
  feOut.called /\ HasProp(feErr, "message") /\ Contains(feErr.message, "SQL0803N") =>
    /\ feOut.out.kind = "UniqueConstraintError"
    /\ feOut.out.fields # {}
    /\ Cardinality(feOut.out.errors) = Cardinality(feOut.out.fields)

\* C10: an execute error carrying an ignored code resolves the run with the
\* result shaped from an empty row set, whatever the result argument.
\* (Fails: a null result throws in the callback, a result object is fetched.)
C10_BenignResolvesEmpty ==
  \A r \in Runs :
    runs[r].benign =>
      /\ runs[r].promise = "resolved"
      /\ runs[r].value = FormatResults(Some(0), Some(0), FALSE)

\* C11: a statement whose execute succeeds with a result object of zero rows
\* resolves; no parser is called and formatResults gets the empty data array
\* and the row count 0.
C11_EmptyResultResolves ==
  \A r \in Runs :
    /\ runs[r].pc = "done"
    /\ runs[r].resultType = "object"
    /\ runs[r].datalen = Some(0)
    => /\ runs[r].promise = "resolved"
       /\ runs[r].value = FormatResults(Some(0), Some(0), FALSE)
       /\ runs[r].calls = <<"prepare", "execute", "fetchAllSync",
                            "getColumnMetadataSync", "closeSync">>

\* C11 witness: a result object whose fetch returned no rows, with no error
C11_Witness ==
  \E r \in Runs :
    /\ runs[r].pc = "done"
    /\ runs[r].resultType = "object"
    /\ runs[r].datalen = Some(0)
    /\ ~runs[r].benign
    /\ runs[r].promise = "resolved"

\* C12: toSql of a descriptor as constructed returns a SQL type and never
\* throws. (Fails: BLOB and TEXT call toLowerCase on a numeric length.)
C12_ToSqlNeverThrows == sqls # <<>> => ~sqls[1].threw

\* C13: toSql leaves every field of the descriptor as the constructor set it,
\* and every toSql call on a descriptor returns what the first returned.
\* (Fails: TEXT and DATE of part_000 assign this._length.)
C13_DescriptorImmutable ==
  /\ desc = made
  /\ \A i \in 1..Len(sqls) : sqls[i] = sqls[1]

\* C14 as stated: _sanitize returns a boolean for the numbers 0 and 1, the
\* strings 'true' and 'false' and any Buffer of length 1; 1 and 'true' give
\* true, 0 and 'false' give false; null and undefined come back unchanged.
C14_SanitizeAnyByte ==
  san.called =>
    /\ san.value \in {Num(1), Str("true")} => san.out = Bool(TRUE)
    /\ san.value \in {Num(0), Str("false")} => san.out = Bool(FALSE)
    /\ san.value.t = "buf" /\ Len(san.value.bytes) = 1 => san.out.t = "bool"
    /\ san.value \in {Null, Undefined} => san.out = san.value

\* C14 amended: as above, but of the Buffers of length 1 only those holding
\* the byte 0 or 1 give a boolean (false, true); another single byte comes
\* back as that number.
C14_SanitizeBooleanForms ==
  san.called =>
    /\ san.value \in {Num(1), Str("true"), Buf(<<1>>)} => san.out = Bool(TRUE)
    /\ san.value \in {Num(0), Str("false"), Buf(<<0>>)} => san.out = Bool(FALSE)
    /\ san.value.t = "buf" /\ Len(san.value.bytes) = 1 /\ san.value.bytes[1] \notin {0, 1}
         => san.out = Num(san.value.bytes[1])
    /\ san.value \in {Null, Undefined} => san.out = san.value

\* C14 witness: a Buffer holding the byte 1 was sanitized to true
C14_Witness == san.called /\ san.value = Buf(<<1>>) /\ san.out = Bool(TRUE)

\* C15: for DATE(n), toSql returns TIMESTAMP when n clamped to [0,6] is 0 and
\* TIMESTAMP(min(n,6)) otherwise, and _stringify asks for min(max(n,0),6)
\* fractional digits, before and after toSql. (Fails: toSql of
\* lib/dialects/db2/data-types.js returns TIMESTAMP for every n.)
C15_PrecisionClamped ==
  made.key = "DATE" /\ made._length.t = "num" =>
    LET n == made._length.n
        k == IF n < 0 THEN 0 ELSE IF n > 6 THEN 6 ELSE n
    IN  /\ \A i \in 1..Len(sqls) :
             /\ ~sqls[i].threw
             /\ sqls[i].sql = Sql("TIMESTAMP", IF k = 0 THEN None ELSE Some(Num(k)))
        /\ strs # None => strs[1].fraction = k

\* C16: after the parse loop every cell that is not null and whose column's
\* SQL_DESC_TYPE_NAME has a registered parser holds parser(value); every
\* other cell is unchanged; no parser is called with null. (Fails: coltypes
\* is keyed by SQL_DESC_CONCISE_TYPE and read by column name.)
C16_CellsParsedByColumnType ==
  parseOut.called =>
    /\ \A i \in 1..Len(parseIn.data) :
         \A k \in 1..Len(parseIn.metadata) :
           LET col == parseIn.metadata[k]
               value == parseIn.data[i][col.name]
           IN  parseOut.data[i][col.name] =
                 IF value # Null /\ col.typeName \in parseIn.store
                   THEN Parsed(col.typeName, value) ELSE value
    /\ \A call \in parseOut.calls : call.arg # Null

\* C17: the rewritten SQL has as many '?' as the params array has entries,
\* and the i-th '?' from the left gets the value of the bind key that stood
\* there, also for a key used twice or keys out of ascending order. (Fails:
\* bindParam is an object keyed by the bind key.)
C17_ParamsByPosition ==
  bindOut.called /\ ~bindOut.threw =>
    LET keys == RefKeys(bindIn.sql, bindIn.list)
        marks == SelectSeq(bindOut.sql, LAMBDA tok : tok = Placeholder)
    IN  /\ Len(marks) = Len(bindOut.params)
        /\ Len(keys) = Len(marks)
        /\ \A i \in 1..Len(keys) :
             i <= Len(bindOut.params) =>
               bindOut.params[i] = GetSQLTypeFromJsType(bindIn.values[keys[i]])

\* C18: a run whose SQL starts with BEGIN / COMMIT / ROLLBACK / SAVE
\* TRANSACTION issues exactly one native transaction call and nothing else,
\* and settles with formatResults() of no rows or with a classified error;
\* every other SQL takes the prepare / execute path and no transaction call.
\* (Fails: SAVE TRANSACTION without options.transaction throws before any
\* call, and a throwing formatError leaves the promise unsettled.)
C18_TxnStatementsBypassPrepare ==
  \A r \in Runs :
    runs[r].pc = "done" =>
      LET calls == runs[r].calls
          TxnCalls == {"beginTransaction", "commitTransaction", "rollbackTransaction"}
          isTxn == \E w \in {"BEGIN", "COMMIT", "ROLLBACK", "SAVE"} :
                     StartsWith(runs[r].sql, <<w, "TRANSACTION">>)
      IN  IF isTxn
            THEN /\ Len(calls) = 1 /\ calls[1] \in TxnCalls
                 /\ \/ /\ runs[r].promise = "resolved"
                       /\ runs[r].value = FormatResults(None, None, FALSE)
                    \/ /\ runs[r].promise = "rejected"
                       /\ ~runs[r].value.threw
                       /\ runs[r].value.kind \in ErrorVariants
            ELSE /\ calls # <<>> /\ calls[1] = "prepare"
                 /\ Len(calls) >= 2 => calls[2] = "execute"
                 /\ \A i \in 1..Len(calls) : calls[i] \notin TxnCalls

\* C19: formatError classifies by the first pattern that matches the message:
\* SQL0803N gives UniqueConstraintError; otherwise the SQL0532N parent-row
\* text, SQL0530N or SQL0531N give ForeignKeyConstraintError; otherwise the
\* drop-constraint text gives UnknownConstraintError; otherwise
\* DatabaseError. (Fails: the drop-constraint branch throws on an error
\* without sql.)
C19_FirstMatchWins ==
  feOut.called /\ HasProp(feErr, "message") =>
    LET msg == feErr.message
        unique == Contains(msg, "SQL0803N")
        foreign == \E tok \in {Parent532, "SQL0530N", "SQL0531N"} : Contains(msg, tok)
        drop == Contains(msg, CouldNotDrop)
    IN  /\ ~feOut.out.threw
        /\ feOut.out.kind =
             IF unique THEN "UniqueConstraintError"
             ELSE IF foreign THEN "ForeignKeyConstraintError"
             ELSE IF drop THEN "UnknownConstraintError"
             ELSE "DatabaseError"

\* C20: disconnect issues no native close on the connection while a run
\* holds its lock and has not settled. (Fails: disconnect unwraps the lock
\* and closes without acquiring it.)
C20_NoCloseWhileLocked ==
  [][conns'[1].closes > conns[1].closes =>
       ~\E r \in Runs : Acquired(r) /\ runs[r].promise = "pending"]_vars

\* C21: a run that ended at the prepare callback (prepare reported an error:
\* prepare is its only native call) is rejected with a classified error,
\* after exactly one attempt to settle, with no execute issued and no
\* exception out of the callback. (Fails: stmt.execute follows the reject
\* unconditionally and stmt is undefined.)
C21_PrepareErrorStops ==
  \A r \in Runs :
    runs[r].pc = "done" /\ runs[r].calls = <<"prepare">> =>
      /\ runs[r].promise = "rejected"
      /\ ~runs[r].value.threw
      /\ runs[r].value.kind \in ErrorVariants
      /\ runs[r].attempts = 1
      /\ ~runs[r].uncaught

\* C22: when a transaction statement's native call calls back, the run has
\* issued only the operation of its own statement (BEGIN beginTransaction,
\* COMMIT commitTransaction, ROLLBACK rollbackTransaction), and a SAVE has
\* issued neither commitTransaction nor rollbackTransaction and leaves an
\* open transaction open. (Fails: SAVE TRANSACTION calls commitTransaction.)
C22_SavepointKeepsTransaction ==
  [][\A r \in Runs :
       runs[r].pc = "txn" /\ runs'[r].pc = "done" =>
         LET calls == runs[r].calls
             sql == runs[r].sql
         IN  /\ StartsWith(sql, <<"BEGIN", "TRANSACTION">>) => calls = <<"beginTransaction">>
             /\ StartsWith(sql, <<"COMMIT", "TRANSACTION">>) => calls = <<"commitTransaction">>
             /\ StartsWith(sql, <<"ROLLBACK", "TRANSACTION">>) =>
                  calls = <<"rollbackTransaction">>
             /\ StartsWith(sql, <<"SAVE", "TRANSACTION">>) =>
                  /\ \A i \in 1..Len(calls) :
                       calls[i] \notin {"commitTransaction", "rollbackTransaction"}
                  /\ txnOpen => txnOpen']_vars

====
